---------------------------- MODULE Spec2Model ----------------------------
(***************************************************************************)
(* A model of src/posix.rs of if-addrs:                                    *)
(*                                                                         *)
(*   - IfAddrs, the owner of the list getifaddrs allocates, its iter() and *)
(*     its Drop, and IfAddrsIterator, the cursor over that list.  The heap *)
(*     the list lives in is part of the state, so that a read of a node    *)
(*     freeifaddrs has deallocated is a state the model can reach.         *)
(*   - detect_interface_changes, one step per system call, with the file   *)
(*     descriptor table and the netlink multicast group it talks to.       *)
(*                                                                         *)
(* Spec is the handle and its iterators, WatchSpec the change watcher.     *)
(***************************************************************************)
EXTENDS Integers, Sequences, FiniteSets, TLC

\* ------------------------------------------------------------------ bounds
\* Cells of the heap getifaddrs allocates list nodes from.
NumAddrs == 2
\* The longest list one getifaddrs call returns.
MaxNodes == 2
\* Calls of IfAddrs::new the caller makes (one slot per call).
MaxHandles == 1
\* Calls of IfAddrs::iter the caller makes (one slot per call).
MaxIters == 2
\* Threads that call detect_interface_changes.
NumWatchers == 2
\* File descriptors the process may hold open.
NumFds == 2

\* ------------------------------------------------------------- the heap
\* The null pointer (posix.rs:89, is_null).
NULL == 0
Addr == 1..NumAddrs
Ptr == Addr \cup {NULL}
\* libc::ifaddrs, as far as the iterator reads it: ifa_next, the forward
\* link.  The nodes of one list have distinct links, so a copy of a node
\* tells which node it was copied from.
Node == [ifa_next : Ptr]
\* What a cell holds while it is not allocated.
FreeCell == [ifa_next |-> NULL]
\* errno values getifaddrs can leave (it fails as socket, recvmsg or malloc do).
GetifaddrsErrnos == {"ENOMEM", "EMFILE"}

Handles == 1..MaxHandles
Iters == 1..MaxIters

VARIABLES
    mem,        \* the heap: Addr -> Node, FreeCell where not allocated
    allocated,  \* the cells getifaddrs has allocated and freeifaddrs has not freed
    errno,      \* the calling thread's errno
    handles,    \* one IfAddrs::new call each: its result and the handle's life
    freeCalls,  \* per handle: freeifaddrs calls made on its list
    getCalls,   \* per handle slot: getifaddrs calls made by its IfAddrs::new
    got,        \* per handle slot: what its getifaddrs call gave (history)
    iters,      \* one IfAddrs::iter call each: the IfAddrsIterator and its history
    fds,        \* the process's file descriptor table
    watch,      \* per watcher thread: its detect_interface_changes call
    bc,         \* the latest do_broadcast call: its inputs and what it returned
    again       \* per iterator: next() was called after it had returned None

listVars == <<mem, allocated, errno, handles, freeCalls, getCalls, got, iters>>
watchVars == <<fds, watch>>
vars == <<mem, allocated, errno, handles, freeCalls, getCalls, got, iters,
          fds, watch, bc, again>>

\* Option<T>
None == [tag |-> "None"]
Some(x) == [tag |-> "Some", val |-> x]

\* The nodes reached from p by forward links, in order, until null (or until
\* a cell that is not allocated: the walk of a list that is no longer there).
RECURSIVE Chain(_, _)
Chain(p, fuel) ==
    IF p = NULL \/ p \notin allocated \/ fuel = 0 THEN <<>>
    ELSE <<p>> \o Chain(mem[p].ifa_next, fuel - 1)

ChainOf(p) == Chain(p, NumAddrs)

Range(s) == {s[k] : k \in DOMAIN s}

\* The lists getifaddrs can build in the free cells: distinct cells, linked
\* in order, null-terminated; the empty list is the null head.
NewLists ==
    {c \in UNION {[1..k -> Addr \ allocated] : k \in 0..MaxNodes} :
        \A a, b \in DOMAIN c : a # b => c[a] # c[b]}

\* ------------------------------------------------------------ IfAddrs
NoHandle == [state |-> "unborn", inner |-> NULL, err |-> "none"]
NotCalled == [rc |-> 1, head |-> NULL, e |-> "none"]
NoIter == [state |-> "unborn", of |-> 0, next |-> NULL, yielded |-> <<>>,
           last |-> "none", uaf |-> FALSE]

\* freeifaddrs(p): deallocates every node of the list p heads.
freeifaddrs(p) ==
    LET cells == Range(ChainOf(p)) IN
    /\ mem' = [a \in Addr |-> IF a \in cells THEN FreeCell ELSE mem[a]]
    /\ allocated' = allocated \ cells

\* A new() that takes the null head for a failure.
IfAddrs_new_result_null_is_error(rc, head, e) ==
    IF rc = -1 \/ head = NULL
    THEN [state |-> "failed", inner |-> NULL, err |-> e]
    ELSE [state |-> "live", inner |-> head, err |-> "none"]

\* A new() that does not look at what getifaddrs returned.
IfAddrs_new_result_unchecked(rc, head, e) ==
    [state |-> "live", inner |-> head, err |-> "none"]

\* What IfAddrs::new returns for what getifaddrs did: rc is its return value,
\* head what it stored through the out pointer, e the errno after the call.
\* state "failed" is Err(last_os_error()), "live" is Ok(Self { inner }).
IfAddrs_new_result(rc, head, e) ==
    IF rc = -1
    THEN [state |-> "failed", inner |-> NULL, err |-> e]
    ELSE [state |-> "live", inner |-> head, err |-> "none"]

\* IfAddrs::new, getifaddrs succeeding with the list of the cells c.
IfAddrs_new_ok(h, c) ==
    LET k == Len(c)
        head == IF k = 0 THEN NULL ELSE c[1] IN
    /\ mem' = [a \in Addr |->
                 IF \E j \in 1..k : c[j] = a
                 THEN LET j == CHOOSE j \in 1..k : c[j] = a IN
                      [ifa_next |-> IF j = k THEN NULL ELSE c[j + 1]]
                 ELSE mem[a]]
    /\ allocated' = allocated \cup Range(c)
    /\ handles' = [handles EXCEPT ![h] = IfAddrs_new_result(0, head, errno)]
    /\ got' = [got EXCEPT ![h] = [rc |-> 0, head |-> head, e |-> errno]]
    /\ UNCHANGED errno

\* IfAddrs::new, getifaddrs failing with errno e.
IfAddrs_new_err(h, e) ==
    /\ errno' = e
    /\ handles' = [handles EXCEPT ![h] = IfAddrs_new_result(-1, NULL, e)]
    /\ got' = [got EXCEPT ![h] = [rc |-> -1, head |-> NULL, e |-> e]]
    /\ UNCHANGED <<mem, allocated>>

IfAddrs_new(h) ==
    /\ handles[h].state = "unborn"
    /\ \A g \in Handles : g < h => handles[g].state # "unborn"
    /\ getCalls' = [getCalls EXCEPT ![h] = @ + 1]
    /\ \/ \E c \in NewLists : IfAddrs_new_ok(h, c)
       \/ \E e \in GetifaddrsErrnos : IfAddrs_new_err(h, e)
    /\ UNCHANGED <<freeCalls, iters>>

\* An iter() that resumes where the handle's latest iterator stands.
IfAddrs_iter_resumed(h) ==
    LET mine == {j \in Iters : iters[j].state = "active" /\ iters[j].of = h} IN
    IF mine = {} THEN [next |-> handles[h].inner]
    ELSE [next |-> iters[CHOOSE j \in mine : \A k \in mine : k <= j].next]

\* The iterator iter() builds from handle h: IfAddrsIterator { next: self.inner }.
IfAddrs_iter_value(h) == [next |-> handles[h].inner]

\* IfAddrs::iter(&self): needs a live handle to borrow; the iterator it
\* returns holds no borrow of the handle (IfAddrsIterator has no lifetime).
IfAddrs_iter(h, i) ==
    /\ handles[h].state = "live"
    /\ iters[i].state = "unborn"
    /\ \A j \in Iters : j < i => iters[j].state # "unborn"
    /\ iters' = [iters EXCEPT ![i] =
                   [NoIter EXCEPT !.state = "active", !.of = h,
                                  !.next = IfAddrs_iter_value(h).next]]
    /\ UNCHANGED <<mem, allocated, errno, handles, freeCalls, getCalls, got>>

\* A drop that runs for the handle and again for a bitwise copy of it.
IfAddrs_drop_copy_too(h) ==
    /\ handles[h].state = "live"
    /\ freeifaddrs(handles[h].inner)
    /\ freeCalls' = [freeCalls EXCEPT ![h] = @ + 2]
    /\ handles' = [handles EXCEPT ![h].state = "released"]
    /\ UNCHANGED <<errno, getCalls, got, iters>>

\* Drop for IfAddrs: runs when the owner lets go of a handle, once (the type
\* is neither Clone nor Copy), whatever iterators were made from it.
IfAddrs_drop(h) ==
    /\ handles[h].state = "live"
    /\ freeifaddrs(handles[h].inner)
    /\ freeCalls' = [freeCalls EXCEPT ![h] = @ + 1]
    /\ handles' = [handles EXCEPT ![h].state = "released"]
    /\ UNCHANGED <<errno, getCalls, got, iters>>

\* ---------------------------------------------------- IfAddrsIterator
\* A next() that ends the sequence at the node whose forward link is null.
IfAddrsIterator_next_stops_early(self, node) ==
    IF self.next = NULL \/ node.ifa_next = NULL
    THEN [next |-> NULL, result |-> None]
    ELSE [next |-> node.ifa_next, result |-> Some(node)]

\* A next() that, called again after the end, yields its last record again.
IfAddrsIterator_next_replays(self, node) ==
    IF self.next = NULL
    THEN IF self.last = "None" /\ self.yielded # <<>>
         THEN [next |-> self.next, result |-> Some(self.yielded[Len(self.yielded)])]
         ELSE [next |-> self.next, result |-> None]
    ELSE [next |-> node.ifa_next, result |-> Some(node)]

\* next(&mut self), node being what the read of *self.next gives.
IfAddrsIterator_next(self, node) ==
    IF self.next = NULL
    THEN [next |-> self.next, result |-> None]
    ELSE [next |-> node.ifa_next, result |-> Some(node)]

\* Whether the cursor of iterator it points into a list that was freed.
Dangling(it) == it.next # NULL /\ handles[it.of].state # "live"

\* What the read of *self.next gives: the node, or, the list being freed,
\* whatever the cell happens to hold by then.
Deref(it) ==
    IF it.next = NULL THEN {FreeCell}
    ELSE IF Dangling(it) THEN Node
    ELSE {mem[it.next]}

\* One next() call on iterator i.  An iterator that has read freed memory
\* takes no further step: what follows an undefined read is not modelled.
Iterator_next(i) ==
    /\ iters[i].state = "active"
    /\ ~iters[i].uaf
    /\ \E node \in Deref(iters[i]) :
         LET r == IfAddrsIterator_next(iters[i], node) IN
         iters' = [iters EXCEPT ![i] =
                     [@ EXCEPT !.next = r.next,
                               !.yielded = IF r.result.tag = "Some"
                                           THEN Append(@, r.result.val) ELSE @,
                               !.last = r.result.tag,
                               !.uaf = Dangling(iters[i])]]
    /\ UNCHANGED <<mem, allocated, errno, handles, freeCalls, getCalls, got>>

\* -------------------------------------------------------- do_broadcast
\* The target_os values of lines 21-27, and some of the others.
LinuxLike == {"linux", "android", "l4re", "emscripten", "fuchsia", "hurd", "nacl"}
OtherTargets == {"macos", "freebsd"}
Targets == LinuxLike \cup OtherTargets

\* libc::ifaddrs as do_broadcast reads it: the primary address and the
\* alternate address, which is the field ifa_ifu where the target has the
\* union and the field ifa_dstaddr where it has not; both point at a sockaddr.
IfaddrsOn(target) ==
    IF target \in LinuxLike THEN [ifa_addr : Ptr, ifa_ifu : Ptr]
    ELSE [ifa_addr : Ptr, ifa_dstaddr : Ptr]

\* A sockaddr: its family tag and its address bytes.
Families == {"AF_INET", "AF_INET6", "AF_PACKET"}
SockAddrs == [sa_family : Families, sa_data : {"a", "b"}]

\* sockaddr::to_ipaddr(p), sa being the memory of sockaddrs: none for the
\* null pointer and for a family that is not an IP family, else the address
\* read from the structure p points at.
to_ipaddr(sa, p) ==
    IF p = NULL THEN None
    ELSE IF sa[p].sa_family = "AF_INET"
    THEN Some([v |-> "V4", ip |-> sa[p].sa_data])
    ELSE IF sa[p].sa_family = "AF_INET6"
    THEN Some([v |-> "V6", ip |-> sa[p].sa_data])
    ELSE None

\* The cells to_ipaddr(p) reads: the structure behind a pointer that is not null.
to_ipaddr_reads(p) == IF p = NULL THEN {} ELSE {p}

\* A do_broadcast that translates the primary address.
do_broadcast_sockaddr_primary(target, ifaddr) == ifaddr.ifa_addr

\* Lines 20-42: the field do_broadcast reads on a build for target.
do_broadcast_sockaddr(target, ifaddr) ==
    IF target \in LinuxLike THEN ifaddr.ifa_ifu ELSE ifaddr.ifa_dstaddr

\* Line 44: sockaddr::to_ipaddr(sockaddr).
do_broadcast(target, ifaddr, sa) ==
    to_ipaddr(sa, do_broadcast_sockaddr(target, ifaddr))

NoBroadcast == [pc |-> "none"]

\* The do_broadcast calls on any record, over any memory of sockaddrs.
BroadcastInputs ==
    {[pc |-> "called", target |-> t, ifaddr |-> r, sa |-> sa] :
        t \in Targets, r \in UNION {IfaddrsOn(u) : u \in Targets},
        sa \in [Addr -> SockAddrs]}

do_broadcast_returns ==
    /\ bc.pc = "called"
    /\ bc.ifaddr \in IfaddrsOn(bc.target)
    /\ bc' = [pc |-> "returned", target |-> bc.target, ifaddr |-> bc.ifaddr,
              sa |-> bc.sa,
              result |-> do_broadcast(bc.target, bc.ifaddr, bc.sa),
              freed |-> FALSE]

\* The cell the k-th record iterator i yielded was copied from: the head for
\* the first, else the forward link of the record before.
Origin(i, k) ==
    IF k = 1 THEN handles[iters[i].of].inner
    ELSE iters[i].yielded[k - 1].ifa_next

\* The k-th record iterator i yielded, as do_broadcast reads it on target.
\* getifaddrs keeps the addresses of a node in the storage of the list, here
\* the node's own cell, and freeifaddrs frees them with the node; next()
\* copies the node's pointers to them, not the addresses (line 94).  alt is
\* the alternate address of the node: null, or the pointer to the cell.
YieldedIfaddrs(i, k, target, alt) ==
    IF target \in LinuxLike
    THEN [ifa_addr |-> Origin(i, k), ifa_ifu |-> alt]
    ELSE [ifa_addr |-> Origin(i, k), ifa_dstaddr |-> alt]

\* do_broadcast(&record) on the k-th record iterator i yielded; s is what the
\* memory behind the record's pointer holds when it is read (once the list is
\* freed: whatever is there by then).
do_broadcast_yielded(i, k) ==
    /\ iters[i].state = "active" /\ ~iters[i].uaf
    /\ k \in DOMAIN iters[i].yielded
    /\ \E target \in Targets, alt \in {NULL, Origin(i, k)}, s \in SockAddrs :
         LET ifaddr == YieldedIfaddrs(i, k, target, alt)
             sa == [a \in Addr |-> s]
             reads == to_ipaddr_reads(do_broadcast_sockaddr(target, ifaddr))
         IN bc' = [pc |-> "returned", target |-> target, ifaddr |-> ifaddr,
                   sa |-> sa, result |-> do_broadcast(target, ifaddr, sa),
                   freed |-> (reads # {}
                              /\ handles[iters[i].of].state = "released")]

\* ------------------------------------------- the kernel, for the watcher
Watchers == 1..NumWatchers
Fd == 1..NumFds
\* Option<Duration>: None, Some(zero), Some(a positive duration).
Timeouts == {"None", "Zero", "Positive"}

SocketErrnos == {"EMFILE", "EAFNOSUPPORT"}
BindErrnos == {"EADDRINUSE", "EINVAL"}
CloseErrnos == {"EINTR"}
SetsockoptErrnos == {"ENOPROTOOPT"}
\* What recv fails with on a blocking socket other than by its timeout.
RecvErrnos == {"ENOBUFS", "EINTR"}

\* An entry of the descriptor table: the thread whose call opened it, whether
\* it is bound to the link group, and whether a notification is queued on it
\* (how many are is not tracked: a call receives at most one).
ClosedFd == [open |-> FALSE, owner |-> 0, bound |-> FALSE, readable |-> FALSE,
             rcvtimeo |-> "None"]
FreeFds == {f \in Fd : ~fds[f].open}
\* socket() returns the lowest descriptor not open.
LowestFree == CHOOSE f \in FreeFds : \A g \in FreeFds : f <= g
IsOpen(f) == f \in Fd /\ fds[f].open

\* std's decode_error_kind: the io::ErrorKind of an errno.
decode_error_kind(e) ==
    CASE e = "EAGAIN" -> "WouldBlock"
      [] e = "EINTR" -> "Interrupted"
      [] e = "EADDRINUSE" -> "AddrInUse"
      [] e = "EINVAL" -> "InvalidInput"
      [] e = "ENOMEM" -> "OutOfMemory"
      [] e = "ETIMEDOUT" -> "TimedOut"
      [] e \in {"EACCES", "EPERM"} -> "PermissionDenied"
      [] OTHER -> "Uncategorized"

\* io::Error::last_os_error(), errno being e.
last_os_error(e) == [kind |-> decode_error_kind(e), os |-> e]
\* What set_read_timeout(Some(zero)) returns, without a system call.
ZeroTimeoutError == [kind |-> "InvalidInput", os |-> "none"]
OkUnit == [kind |-> "Ok", os |-> "none"]
Pending == [kind |-> "pending", os |-> "none"]

\* ------------------------------------------ detect_interface_changes
\* A call's frame.  pc is the system call it makes next; fd the raw socket
\* (-1: none, and none once the call has returned and its locals are gone);
\* result what it returns, or will once the socket is dropped.  trace is the
\* call's history: the system calls it has made, each with how it ended.
IdleCall == [pc |-> "idle", timeout |-> "None", fd |-> -1, errno |-> "none",
             result |-> Pending, trace |-> <<>>]

\* Thread w enters detect_interface_changes(t); each thread makes one call.
dic_call(w, t) ==
    /\ watch[w].pc = "idle"
    /\ watch' = [watch EXCEPT ![w] = [@ EXCEPT !.pc = "socket", !.timeout = t]]
    /\ UNCHANGED fds

\* The frame r after a system call that ended as ev and left errno e.
Sys(r, ev, e) == [r EXCEPT !.errno = e, !.trace = Append(@, ev)]

\* A socket() whose failure goes unnoticed.
dic_after_socket_unchecked(r, rc) ==
    [r EXCEPT !.pc = "bind", !.fd = rc]

\* Lines 106-109: what follows socket() returning rc.
dic_after_socket(r, rc) ==
    IF rc < 0
    THEN [r EXCEPT !.pc = "done", !.fd = -1, !.result = last_os_error(r.errno)]
    ELSE [r EXCEPT !.pc = "bind", !.fd = rc]

dic_socket(w) ==
    /\ watch[w].pc = "socket"
    /\ \/ /\ FreeFds # {}
          /\ fds' = [fds EXCEPT ![LowestFree] =
                        [open |-> TRUE, owner |-> w, bound |-> FALSE,
                         readable |-> FALSE, rcvtimeo |-> "None"]]
          /\ watch' = [watch EXCEPT ![w] =
                dic_after_socket(Sys(@, "socket_ok", watch[w].errno), LowestFree)]
       \/ \E e \in SocketErrnos :
            /\ watch' = [watch EXCEPT ![w] =
                  dic_after_socket(Sys(@, "socket_err", e), -1)]
            /\ UNCHANGED fds

\* A bind failure that returns without closing the socket.
dic_after_bind_no_close(r, rc) ==
    IF rc < 0
    THEN [r EXCEPT !.pc = "done", !.fd = -1, !.result = last_os_error(r.errno)]
    ELSE [r EXCEPT !.pc = "set_read_timeout"]

\* Lines 115-129: what follows bind() returning rc: the close of line 123,
\* or the UdpSocket of line 129 and its set_read_timeout.
dic_after_bind(r, rc) ==
    IF rc < 0
    THEN [r EXCEPT !.pc = "close_raw"]
    ELSE [r EXCEPT !.pc = "set_read_timeout"]

dic_bind(w) ==
    /\ watch[w].pc = "bind"
    /\ \/ /\ IsOpen(watch[w].fd)
          /\ fds' = [fds EXCEPT ![watch[w].fd].bound = TRUE]
          /\ watch' = [watch EXCEPT ![w] =
                dic_after_bind(Sys(@, "bind_ok", watch[w].errno), 0)]
       \/ \E e \in (IF IsOpen(watch[w].fd) THEN BindErrnos ELSE {"EBADF"}) :
            /\ watch' = [watch EXCEPT ![w] =
                  dic_after_bind(Sys(@, "bind_err", e), -1)]
            /\ UNCHANGED fds

\* close(f) in the kernel: the descriptor is released whatever close returns.
k_close(f) ==
    fds' = IF IsOpen(f) THEN [fds EXCEPT ![f] = ClosedFd] ELSE fds
\* The errno values a close(f) by a thread whose errno is e can leave: e
\* itself when close returns 0.
close_errnos(f, e) == IF IsOpen(f) THEN {e} \cup CloseErrnos ELSE {"EBADF"}

\* A bind failure path that, after its close, also lets a socket value drop.
dic_after_close_raw_then_drop(r) ==
    [r EXCEPT !.pc = "drop", !.result = last_os_error(r.errno)]

\* Lines 123-124, after close(socket): return Err(last_os_error()).
dic_after_close_raw(r) ==
    [r EXCEPT !.pc = "done", !.fd = -1, !.result = last_os_error(r.errno)]

dic_close_raw(w) ==
    /\ watch[w].pc = "close_raw"
    /\ k_close(watch[w].fd)
    /\ \E e \in close_errnos(watch[w].fd, watch[w].errno) :
         watch' = [watch EXCEPT ![w] = dic_after_close_raw(Sys(@, "close", e))]

\* Line 132: socket.set_read_timeout(timeout)?, rc being what setsockopt
\* returned (std returns an error for Some(zero) before any system call).
dic_after_set_read_timeout(r, rc) ==
    IF r.timeout = "Zero"
    THEN [r EXCEPT !.pc = "drop", !.result = ZeroTimeoutError]
    ELSE IF rc < 0
    THEN [r EXCEPT !.pc = "drop", !.result = last_os_error(r.errno)]
    ELSE [r EXCEPT !.pc = "recv"]

\* A call that replaces an absent timeout by a finite default.
dic_read_timeout_defaulted(r) ==
    IF r.timeout = "None" THEN "Positive" ELSE r.timeout

\* Line 132: the timeout handed to set_read_timeout is the caller's, as is.
dic_read_timeout(r) == r.timeout

\* A successful setsockopt(SO_RCVTIMEO) stores the timeout in the socket; a
\* new socket has none.
dic_set_read_timeout(w) ==
    /\ watch[w].pc = "set_read_timeout"
    /\ \/ /\ watch[w].timeout = "Zero"
          /\ watch' = [watch EXCEPT ![w] = dic_after_set_read_timeout(@, 0)]
          /\ UNCHANGED fds
       \/ /\ watch[w].timeout # "Zero"
          /\ watch' = [watch EXCEPT ![w] =
                dic_after_set_read_timeout(Sys(@, "setsockopt_ok", watch[w].errno), 0)]
          /\ fds' = IF IsOpen(watch[w].fd)
                    THEN [fds EXCEPT ![watch[w].fd].rcvtimeo =
                                         dic_read_timeout(watch[w])]
                    ELSE fds
       \/ /\ watch[w].timeout # "Zero"
          /\ \E e \in SetsockoptErrnos :
               watch' = [watch EXCEPT ![w] =
                 dic_after_set_read_timeout(Sys(@, "setsockopt_err", e), -1)]
          /\ UNCHANGED fds

\* A receive whose every error is reported as one generic error.
dic_after_recv_generic(r, rc) ==
    IF rc < 0
    THEN [r EXCEPT !.pc = "drop", !.result = [kind |-> "Other", os |-> "none"]]
    ELSE [r EXCEPT !.pc = "drop", !.result = OkUnit]

\* A receive that is made again when a signal interrupted it.
dic_after_recv_retries(r, rc) ==
    IF rc < 0 /\ r.errno = "EINTR"
    THEN [r EXCEPT !.pc = "recv"]
    ELSE IF rc < 0
    THEN [r EXCEPT !.pc = "drop", !.result = last_os_error(r.errno)]
    ELSE [r EXCEPT !.pc = "drop", !.result = OkUnit]

\* Lines 133-135: socket.recv(&mut buf)?; Ok(()), rc being what recv returned.
dic_after_recv(r, rc) ==
    IF rc < 0
    THEN [r EXCEPT !.pc = "drop", !.result = last_os_error(r.errno)]
    ELSE [r EXCEPT !.pc = "drop", !.result = OkUnit]

\* recv returns when a notification is queued, when the timeout (if any)
\* elapses with none queued (EAGAIN), or when the socket reports an error;
\* until then the thread is blocked in it.
dic_recv_ok(w) ==
    /\ watch[w].pc = "recv"
    /\ LET f == watch[w].fd IN
       /\ IsOpen(f) /\ fds[f].readable
       /\ \E more \in BOOLEAN : fds' = [fds EXCEPT ![f].readable = more]
       /\ watch' = [watch EXCEPT ![w] =
             dic_after_recv(Sys(@, "recv_ok", watch[w].errno), 1)]

dic_recv_fail(w) ==
    /\ watch[w].pc = "recv"
    /\ LET f == watch[w].fd IN
       \/ /\ IsOpen(f) /\ ~fds[f].readable
          /\ fds[f].rcvtimeo = "Positive"
          /\ watch' = [watch EXCEPT ![w] =
                dic_after_recv(Sys(@, "recv_timeout", "EAGAIN"), -1)]
          /\ UNCHANGED fds
       \/ \E e \in (IF IsOpen(f) THEN RecvErrnos ELSE {"EBADF"}) :
            /\ watch' = [watch EXCEPT ![w] =
                  dic_after_recv(Sys(@, "recv_err", e), -1)]
            /\ UNCHANGED fds

dic_recv(w) == dic_recv_ok(w) \/ dic_recv_fail(w)

\* The UdpSocket built at line 129 goes out of scope (a `?` return, or the
\* end of the function): its Drop closes the descriptor and ignores what
\* close returns; the function returns.
dic_after_drop(r) ==
    [r EXCEPT !.pc = "done", !.fd = -1]

dic_drop(w) ==
    /\ watch[w].pc = "drop"
    /\ k_close(watch[w].fd)
    /\ \E e \in close_errnos(watch[w].fd, watch[w].errno) :
         watch' = [watch EXCEPT ![w] = dic_after_drop(Sys(@, "close", e))]

\* The kernel reports a link change: every socket bound to the RTNLGRP_LINK
\* group (line 113) queues one notification.
KernelLinkEvent ==
    /\ \E f \in Fd : fds[f].open /\ fds[f].bound
    /\ fds' = [f \in Fd |->
                 IF fds[f].open /\ fds[f].bound
                 THEN [fds[f] EXCEPT !.readable = TRUE] ELSE fds[f]]
    /\ UNCHANGED watch

\* --------------------------------------------------------------- Spec
ListInit ==
    /\ mem = [a \in Addr |-> FreeCell]
    /\ allocated = {}
    /\ errno = "none"
    /\ handles = [h \in Handles |-> NoHandle]
    /\ freeCalls = [h \in Handles |-> 0]
    /\ getCalls = [h \in Handles |-> 0]
    /\ got = [h \in Handles |-> NotCalled]
    /\ iters = [i \in Iters |-> NoIter]

WatchInit ==
    /\ fds = [f \in Fd |-> ClosedFd]
    /\ watch = [w \in Watchers |-> IdleCall]

Init ==
    /\ ListInit /\ WatchInit
    /\ bc = NoBroadcast
    /\ again = [i \in Iters |-> FALSE]

Next ==
    \/ \E h \in Handles : IfAddrs_new(h) /\ UNCHANGED <<watchVars, bc, again>>
    \/ \E h \in Handles, i \in Iters : IfAddrs_iter(h, i) /\ UNCHANGED <<watchVars, bc, again>>
    \/ \E h \in Handles : IfAddrs_drop(h) /\ UNCHANGED <<watchVars, bc, again>>
    \/ \E i \in Iters : Iterator_next(i) /\ UNCHANGED <<watchVars, bc, again>>

\* The handle and its iterators.
Spec == Init /\ [][Next]_vars

\* The same steps, with the record of the next() calls made on an iterator
\* that had already returned None.
ExhaustNext ==
    \/ \E h \in Handles : IfAddrs_new(h) /\ UNCHANGED <<watchVars, bc, again>>
    \/ \E h \in Handles, i \in Iters :
         IfAddrs_iter(h, i) /\ UNCHANGED <<watchVars, bc, again>>
    \/ \E h \in Handles : IfAddrs_drop(h) /\ UNCHANGED <<watchVars, bc, again>>
    \/ \E i \in Iters :
         /\ Iterator_next(i)
         /\ again' = [again EXCEPT ![i] = @ \/ iters[i].last = "None"]
         /\ UNCHANGED <<watchVars, bc>>

ExhaustSpec == Init /\ [][ExhaustNext]_vars

\* The handle, its iterators and the use of the records they yield.
RecordNext ==
    \/ Next
    \/ \E i \in Iters, k \in 1..NumAddrs :
         do_broadcast_yielded(i, k) /\ UNCHANGED <<listVars, watchVars, again>>

RecordSpec == Init /\ [][RecordNext]_vars

WatchNext ==
    \/ \E w \in Watchers, t \in Timeouts : dic_call(w, t) /\ UNCHANGED <<listVars, bc, again>>
    \/ \E w \in Watchers : dic_socket(w) /\ UNCHANGED <<listVars, bc, again>>
    \/ \E w \in Watchers : dic_bind(w) /\ UNCHANGED <<listVars, bc, again>>
    \/ \E w \in Watchers : dic_close_raw(w) /\ UNCHANGED <<listVars, bc, again>>
    \/ \E w \in Watchers : dic_set_read_timeout(w) /\ UNCHANGED <<listVars, bc, again>>
    \/ \E w \in Watchers : dic_recv(w) /\ UNCHANGED <<listVars, bc, again>>
    \/ \E w \in Watchers : dic_drop(w) /\ UNCHANGED <<listVars, bc, again>>
    \/ KernelLinkEvent /\ UNCHANGED <<listVars, bc, again>>

\* The change watcher.
WatchSpec == Init /\ [][WatchNext]_vars

\* do_broadcast, on every record and every memory of sockaddrs.
BroadcastInit ==
    /\ ListInit /\ WatchInit
    /\ bc \in BroadcastInputs /\ bc.ifaddr \in IfaddrsOn(bc.target)
    /\ again = [i \in Iters |-> FALSE]

BroadcastNext ==
    do_broadcast_returns /\ UNCHANGED <<listVars, watchVars, again>>

BroadcastSpec == BroadcastInit /\ [][BroadcastNext]_vars

\* The kernel wakes a thread blocked in recv once a notification is queued on
\* its socket, and a thread that is returning runs to its return.
WatchFairSpec ==
    /\ WatchSpec
    /\ \A w \in Watchers :
         /\ WF_vars(dic_recv_ok(w) /\ UNCHANGED <<listVars, bc, again>>)
         /\ WF_vars(dic_drop(w) /\ UNCHANGED <<listVars, bc, again>>)

\* ------------------------------------------- the handle and its iterators
LiveHandles == {h \in Handles : handles[h].state = "live"}
ItersOf(h) == {i \in Iters : iters[i].state = "active" /\ iters[i].of = h}
\* The records of the list p heads, in list order.
Records(p) == [k \in 1..Len(ChainOf(p)) |-> mem[ChainOf(p)[k]]]

\* C1: every handle a successful IfAddrs::new produced has had freeifaddrs
\* called on its list exactly once when it has been released and not at all
\* before, whatever iter() and next() calls were made; and the cells still
\* allocated are exactly those of the lists of the live handles.
C1_FreedExactlyOnce ==
    /\ \A h \in Handles :
         freeCalls[h] = IF handles[h].state = "released" THEN 1 ELSE 0
    /\ allocated = UNION {Range(ChainOf(handles[h].inner)) : h \in LiveHandles}

\* A handle over a list of two nodes, released after an iterator had walked
\* the list to its end.
C1_Witness ==
    \E h \in Handles : \E i \in ItersOf(h) :
        /\ handles[h].state = "released" /\ handles[h].inner # NULL
        /\ Len(iters[i].yielded) = 2 /\ iters[i].last = "None" /\ ~iters[i].uaf

\* C2: no next() reads a list node after freeifaddrs has run on that list.
C2_NoReadAfterRelease ==
    \A i \in Iters : ~iters[i].uaf

\* C3: an iterator of a live handle has yielded the records of the first
\* nodes of the list in list order, stands at the node after them (null after
\* the last), and has returned end-of-sequence only after all of them.
C3_YieldsChainInOrder ==
    \A h \in LiveHandles : \A i \in ItersOf(h) :
        LET recs == Records(handles[h].inner)
            ch == ChainOf(handles[h].inner)
            n == Len(iters[i].yielded) IN
        /\ n <= Len(recs)
        /\ iters[i].yielded = SubSeq(recs, 1, n)
        /\ iters[i].next = IF n < Len(ch) THEN ch[n + 1] ELSE NULL
        /\ iters[i].last = "None" => n = Len(recs)
        /\ iters[i].last = "Some" => n >= 1
        /\ iters[i].last = "none" => n = 0

\* An iterator of a live handle that has yielded both records of a list of
\* two and then end-of-sequence.
C3_Witness ==
    \E h \in LiveHandles : \E i \in ItersOf(h) :
        /\ Len(ChainOf(handles[h].inner)) = 2
        /\ iters[i].last = "None" /\ Len(iters[i].yielded) = 2

\* C4: iter() on a live handle returns an iterator at the handle's head that
\* has yielded nothing, whatever iterators exist; a next() on one iterator
\* changes no other iterator and no handle; and two iterators of one live
\* handle that have both reached the end have yielded the same sequence.
C4_Restartable ==
    /\ [][\A i \in Iters :
            /\ (iters[i].state = "unborn" /\ iters'[i].state = "active") =>
                  /\ iters'[i].next = handles[iters'[i].of].inner
                  /\ iters'[i].yielded = <<>>
                  /\ handles' = handles
            /\ (iters[i].state = "active" /\ iters'[i] # iters[i]) =>
                  /\ \A j \in Iters \ {i} : iters'[j] = iters[j]
                  /\ handles' = handles]_vars
    /\ [](\A h \in LiveHandles : \A i, j \in ItersOf(h) :
            (iters[i].last = "None" /\ iters[j].last = "None") =>
                iters[i].yielded = iters[j].yielded)

\* Two iterators of one live handle over a list of two: the first at the end
\* of the list, the second just made.
C4_Witness ==
    \E h \in LiveHandles : \E i, j \in ItersOf(h) :
        /\ i < j
        /\ iters[i].last = "None" /\ Len(iters[i].yielded) = 2
        /\ iters[j].last = "none" /\ iters[j].next = handles[h].inner

\* C5: when getifaddrs succeeds with a null head, IfAddrs::new returns a
\* handle, and an iterator from it yields no record: its first next()
\* returns end-of-sequence (and reads nothing, the handle released or not).
C5_EmptyListIsNoError ==
    \A h \in Handles :
        (got[h].rc = 0 /\ got[h].head = NULL) =>
            /\ handles[h].state \in {"live", "released"}
            /\ handles[h].err = "none"
            /\ \A i \in ItersOf(h) :
                 /\ iters[i].yielded = <<>>
                 /\ iters[i].last \in {"none", "None"}
                 /\ ~iters[i].uaf

\* A handle over the empty list with an iterator whose next() has returned
\* end-of-sequence.
C5_Witness ==
    \E h \in Handles : \E i \in ItersOf(h) :
        /\ got[h].rc = 0 /\ got[h].head = NULL
        /\ iters[i].last = "None"

\* C6: when getifaddrs returns -1, IfAddrs::new returns the error of the
\* errno getifaddrs left and no handle: nothing is iterated or freed for it,
\* and getifaddrs was called once.
C6_FailureGivesOsError ==
    \A h \in Handles :
        got[h].rc = -1 =>
            /\ handles[h].state = "failed"
            /\ handles[h].err = got[h].e
            /\ handles[h].err \in GetifaddrsErrnos
            /\ freeCalls[h] = 0
            /\ getCalls[h] = 1
            /\ ItersOf(h) = {}

\* An IfAddrs::new that failed with EMFILE.
C6_Witness ==
    \E h \in Handles : got[h].rc = -1 /\ handles[h].err = "EMFILE"

\* ------------------------------------------------- the change watcher
\* How many system calls of the trace tr ended as one of evs.
Count(tr, evs) == Cardinality({k \in DOMAIN tr : tr[k] \in evs})
Made(w, evs) == Count(watch[w].trace, evs)
\* The descriptors open in the table that the call of thread w opened.
HeldBy(w) == {f \in Fd : fds[f].open /\ fds[f].owner = w}
Returned(w) == watch[w].pc = "done"
SetupOk(w) == Made(w, {"socket_ok"}) = 1 /\ Made(w, {"bind_ok"}) = 1

\* C7: a call never closes its socket twice, and when it has returned after
\* a successful socket() it has closed the socket once and the descriptor is
\* no longer open, on whichever path it returned.
C7_SocketClosedOnce ==
    \A w \in Watchers :
        /\ Made(w, {"close"}) <= 1
        /\ (Returned(w) /\ Made(w, {"socket_ok"}) = 1) =>
              (Made(w, {"close"}) = 1 /\ HeldBy(w) = {})

\* Two calls have returned with their sockets closed: one after a failed
\* bind, one after set_read_timeout returned an error.
C7_Witness ==
    \E v, w \in Watchers :
        /\ Returned(v) /\ Made(v, {"bind_err"}) = 1 /\ Made(v, {"close"}) = 1
        /\ Returned(w) /\ SetupOk(w) /\ Made(w, {"recv_ok", "recv_timeout", "recv_err"}) = 0
        /\ Made(w, {"close"}) = 1

\* C8: a call whose receive timed out returns the WouldBlock error (and had
\* a finite timeout); a call whose socket(), bind() or receive failed
\* otherwise returns an error that is not WouldBlock.
C8_TimeoutIsWouldBlock ==
    \A w \in Watchers :
        Returned(w) =>
            /\ Made(w, {"recv_timeout"}) = 1 =>
                  (watch[w].result.kind = "WouldBlock" /\ watch[w].timeout = "Positive")
            /\ Made(w, {"socket_err", "bind_err", "recv_err"}) >= 1 =>
                  watch[w].result.kind \notin {"WouldBlock", "Ok", "pending"}

\* A call has returned after its receive timed out, another after its
\* receive failed.
C8_Witness ==
    \E v, w \in Watchers :
        /\ Returned(v) /\ Made(v, {"recv_timeout"}) = 1
        /\ Returned(w) /\ Made(w, {"recv_err"}) = 1

\* C9: a call with a timeout of Some(zero) whose socket() and bind()
\* succeeded and which received no notification returns the WouldBlock error.
C9_ZeroTimeoutIsWouldBlock ==
    \A w \in Watchers :
        (Returned(w) /\ watch[w].timeout = "Zero" /\ SetupOk(w)
            /\ Made(w, {"recv_ok"}) = 0) =>
            watch[w].result.kind = "WouldBlock"

\* C10: once socket() has failed the call has returned, with the error of
\* the errno socket() left; it has made no other system call and holds no
\* descriptor.
C10_SocketFailureReturnsAtOnce ==
    \A w \in Watchers :
        Made(w, {"socket_err"}) >= 1 =>
            /\ Returned(w)
            /\ watch[w].trace = <<"socket_err">>
            /\ watch[w].result = last_os_error(watch[w].errno)
            /\ watch[w].result.os \in SocketErrnos
            /\ HeldBy(w) = {}

\* A call has returned EMFILE from socket() while another call is blocked
\* in its receive.
C10_Witness ==
    \E v, w \in Watchers :
        /\ Returned(v) /\ watch[v].trace = <<"socket_err">>
        /\ watch[v].result.os = "EMFILE"
        /\ watch[w].pc = "recv"

\* C11: a call whose bind() failed has, once returned, closed the socket,
\* made no receive, and returned the error of the errno bind() left, whatever
\* the close() that ran before errno was read did.
C11_BindFailureReturnsBindError ==
    \A w \in Watchers :
        (Returned(w) /\ Made(w, {"bind_err"}) = 1) =>
            /\ Made(w, {"close"}) = 1 /\ HeldBy(w) = {}
            /\ Made(w, {"recv_ok", "recv_timeout", "recv_err"}) = 0
            /\ watch[w].result.os \in BindErrnos
            /\ watch[w].result = last_os_error(watch[w].result.os)

RecvEvents == {"recv_ok", "recv_timeout", "recv_err"}

\* C12: a call made with no timeout that has reached the receive never times
\* out: it returns success exactly when its receive got a notification and an
\* error other than WouldBlock exactly when its receive failed; and once a
\* notification is queued on its socket the call does return.
C12_NoTimeoutBlocksUntilEvent ==
    /\ [](\A w \in Watchers :
            (watch[w].timeout = "None"
               /\ (watch[w].pc = "recv" \/ Made(w, RecvEvents) > 0)) =>
                /\ Made(w, {"recv_timeout"}) = 0
                /\ watch[w].result.kind # "WouldBlock"
                /\ Returned(w) => /\ Made(w, {"recv_ok", "recv_err"}) = 1
                                  /\ (watch[w].result = OkUnit)
                                        <=> (Made(w, {"recv_ok"}) = 1))
    /\ \A w \in Watchers :
         (watch[w].timeout = "None" /\ watch[w].pc = "recv"
            /\ IsOpen(watch[w].fd) /\ fds[watch[w].fd].readable)
           ~> Returned(w)

C12_Witness ==
    \E w \in Watchers :
        /\ watch[w].timeout = "None" /\ Returned(w)
        /\ Made(w, {"recv_ok"}) = 1 /\ watch[w].result = OkUnit

\* The steps at which a call has a socket of its own: from the successful
\* socket() to the close.
HasSocket(w) ==
    watch[w].pc \in {"bind", "close_raw", "set_read_timeout", "recv", "drop"}

\* C13: concurrent calls have distinct open sockets, each owned by its call;
\* a step of one call (its close, timeout or error included) changes neither
\* another call nor another call's socket; and a link change queues its
\* notification on every bound socket at once, so one event can complete
\* every waiting call.
C13_CallsDoNotInterfere ==
    /\ [](\A w \in Watchers : HasSocket(w) =>
            /\ IsOpen(watch[w].fd) /\ fds[watch[w].fd].owner = w
            /\ \A v \in Watchers \ {w} :
                  HasSocket(v) => watch[v].fd # watch[w].fd)
    /\ [][\A w \in Watchers : watch'[w] # watch[w] =>
            \A v \in Watchers \ {w} :
               /\ watch'[v] = watch[v]
               /\ HasSocket(v) => fds'[watch[v].fd] = fds[watch[v].fd]]_vars
    /\ [][(\E f \in Fd : ~fds[f].readable /\ fds'[f].readable) =>
            \A g \in Fd : (fds[g].open /\ fds[g].bound) => fds'[g].readable]_vars

\* Two calls whose sockets are open at the same time have both received a
\* notification and are both returning success.
C13_Witness ==
    \E w, v \in Watchers :
        /\ w # v /\ watch[w].pc = "drop" /\ watch[v].pc = "drop"
        /\ IsOpen(watch[w].fd) /\ IsOpen(watch[v].fd) /\ watch[w].fd # watch[v].fd
        /\ watch[w].result = OkUnit /\ watch[v].result = OkUnit
        /\ Made(w, {"recv_ok"}) = 1 /\ Made(v, {"recv_ok"}) = 1

\* C14: do_broadcast returns what to_ipaddr returns for the field of the
\* target (ifa_ifu on the Linux-like targets, ifa_dstaddr on the others) and
\* for no other: none when that field is null or the sockaddr it points at
\* has a family that is not an IP family, else the address stored there.
C14_BroadcastIsSelectedField ==
    bc.pc = "returned" =>
        LET p == IF bc.target \in LinuxLike
                 THEN bc.ifaddr.ifa_ifu ELSE bc.ifaddr.ifa_dstaddr IN
        /\ bc.result = to_ipaddr(bc.sa, p)
        /\ (p = NULL \/ bc.sa[p].sa_family \notin {"AF_INET", "AF_INET6"})
              <=> (bc.result = None)
        /\ (bc.result # None) =>
              /\ bc.result.tag = "Some"
              /\ bc.result.val.ip = bc.sa[p].sa_data
              /\ (bc.result.val.v = "V4") <=> (bc.sa[p].sa_family = "AF_INET")

\* On a target without the union, a record whose primary address is an IPv6
\* one and whose ifa_dstaddr is an IPv4 one has given the IPv4 one.
C14_Witness ==
    /\ bc.pc = "returned" /\ bc.target \in OtherTargets
    /\ bc.ifaddr.ifa_dstaddr # NULL /\ bc.ifaddr.ifa_addr # bc.ifaddr.ifa_dstaddr
    /\ bc.ifaddr.ifa_addr # NULL
    /\ bc.sa[bc.ifaddr.ifa_addr].sa_family = "AF_INET6"
    /\ bc.sa[bc.ifaddr.ifa_dstaddr].sa_family = "AF_INET"
    /\ bc.result = Some([v |-> "V4", ip |-> bc.sa[bc.ifaddr.ifa_dstaddr].sa_data])

\* C15: an iterator whose latest next() returned None has a null cursor, and
\* no step changes that: every next() made on it afterwards has returned
\* None, has yielded nothing more and has left the cursor null.
C15_ExhaustedIsTerminal ==
    /\ [](\A i \in Iters :
            /\ iters[i].last = "None" => iters[i].next = NULL
            /\ again[i] => iters[i].last = "None")
    /\ [][\A i \in Iters : iters[i].last = "None" =>
            /\ iters'[i].last = "None" /\ iters'[i].next = NULL
            /\ iters'[i].yielded = iters[i].yielded]_vars

\* next() was called again on an iterator that had yielded records and then
\* returned None.
C15_Witness ==
    \E i \in Iters :
        /\ again[i] /\ iters[i].last = "None" /\ iters[i].next = NULL
        /\ Len(iters[i].yielded) > 0

\* C16: a call makes at most one socket(), one bind() and one receive, and
\* the receive, whatever its outcome, is followed by nothing but the close of
\* the socket and the return.
C16_OneReceiveNoRetry ==
    \A w \in Watchers :
        /\ Made(w, RecvEvents) <= 1
        /\ Made(w, {"socket_ok", "socket_err"}) <= 1
        /\ Made(w, {"bind_ok", "bind_err"}) <= 1
        /\ Made(w, RecvEvents) = 1 =>
              /\ watch[w].pc \in {"drop", "done"}
              /\ \E k \in DOMAIN watch[w].trace :
                    /\ watch[w].trace[k] \in RecvEvents
                    /\ \A j \in DOMAIN watch[w].trace :
                          j > k => watch[w].trace[j] = "close"
        /\ Returned(w) /\ SetupOk(w) /\ Made(w, {"setsockopt_ok"}) = 1 =>
              Made(w, RecvEvents) = 1

\* One call has returned after a receive that a signal interrupted, another
\* after a receive that timed out.
C16_Witness ==
    \E w, v \in Watchers :
        /\ Returned(w) /\ Made(w, {"recv_err"}) = 1
        /\ watch[w].result.os = "EINTR"
        /\ Returned(v) /\ Made(v, {"recv_timeout"}) = 1

\* The steps of a call up to the receive, all successful.
StepsToRecv == <<"socket_ok", "bind_ok", "setsockopt_ok">>

\* A returned call returned the error of its first failing step, for every
\* step but bind (whose error is read after a close).
FirstFailureReturned(w) ==
    /\ Made(w, {"socket_err"}) = 1 => watch[w].result.os \in SocketErrnos
    /\ (SetupOk(w) /\ watch[w].timeout = "Zero") =>
          watch[w].result = ZeroTimeoutError
    /\ Made(w, {"setsockopt_err"}) = 1 => watch[w].result.os \in SetsockoptErrnos
    /\ Made(w, {"recv_timeout"}) = 1 => watch[w].result.os = "EAGAIN"
    /\ Made(w, {"recv_err"}) = 1 => watch[w].result.os \in RecvErrnos
    /\ watch[w].result # OkUnit =>
          watch[w].result = last_os_error(watch[w].result.os)
             \/ watch[w].result = ZeroTimeoutError

\* The parts of the claim of C17 that do not rest on the error of a failed bind.
StepsInOrder ==
    \A w \in Watchers :
        /\ (watch[w].pc = "recv" \/ Made(w, RecvEvents) > 0) =>
              /\ Len(watch[w].trace) >= 3
              /\ SubSeq(watch[w].trace, 1, 3) = StepsToRecv
        /\ Returned(w) =>
              /\ (watch[w].result = OkUnit)
                    <=> (watch[w].trace = StepsToRecv \o <<"recv_ok", "close">>)
              /\ FirstFailureReturned(w)

\* C17: a returned call returned success exactly when socket(), bind(), the
\* setting of the timeout and one receive succeeded, in that order; no
\* receive is made before the other three succeeded; and a call that failed
\* returned the error of its first failing step.
C17_SuccessIffAllStepsElseFirstError ==
    /\ StepsInOrder
    /\ \A w \in Watchers :
         (Returned(w) /\ Made(w, {"bind_err"}) = 1) =>
             watch[w].result.os \in BindErrnos

\* C18: no do_broadcast call on a record that next() yielded reads memory
\* that freeifaddrs has deallocated.
C18_YieldedRecordStaysSafe ==
    bc.pc = "returned" => ~bc.freed

=============================================================================
